---- MODULE Spec2Model ----
(***************************************************************************)
(* A model of src/src/main.rs: the step-wise Dijkstra / A* search on a     *)
(* grid (struct Grid), its frontier heap (BinaryHeap<UnvisitedState>),     *)
(* obstacle painting (draw_obstacle) and path colouring (color_path).      *)
(*                                                                         *)
(* A grid value is a record with the fields of struct Grid plus three      *)
(* observation fields that the program does not store:                     *)
(*   panicked  "" while the process is alive, else the panic that ended it *)
(*   stdout    the last line printed by dijkstra_iteration ("" if none)    *)
(*   calls     the number of dijkstra_iteration calls made before the      *)
(*             search terminated                                           *)
(* Coordinates are pairs <<x, y>>, 0-based as in the source; cells is a    *)
(* sequence of columns (Vec<Vec<CellState>>), so cell (x, y) is            *)
(* cells[x + 1][y + 1].                                                    *)
(*                                                                         *)
(* pc is main's position: "draw" while it paints obstacles, "loop" once it *)
(* has called dijkstra_iteration, "idle" once it has called it on a search *)
(* that had already terminated. A second specification applies Grid::new   *)
(* and draw_obstacle once each to recorded arguments; there pc is "new",   *)
(* "made" or "drawn".                                                      *)
(***************************************************************************)
EXTENDS Integers, Sequences, FiniteSets, TLC

(* Bounds of the model. *)
MaxW == 5
MaxH == 5
PaintSide == 3
PaintCells == 9
MaxObstacles == 3

VARIABLES grid, twin, pc

vars == <<grid, twin, pc>>

(***************************************************************************)
(* enum CellState                                                          *)
(***************************************************************************)
Unknown == [tag |-> "Unknown"]
Unvisited == [tag |-> "Unvisited"]
Visited(d) == [tag |-> "Visited", dist |-> d]
Obstacle == [tag |-> "Obstacle"]
OnPath == [tag |-> "OnPath"]

(* Option::None, as returned by get_cell and BinaryHeap::pop. *)
None == [tag |-> "None"]

(***************************************************************************)
(* struct UnvisitedState and its Ord                                       *)
(***************************************************************************)
UnvisitedState(d, a, c) == [dist |-> d, actual_dist |-> a, cell |-> c]

(* u32::cmp: -1 Less, 0 Equal, 1 Greater *)
CmpU32(a, b) == IF a < b THEN -1 ELSE IF a > b THEN 1 ELSE 0

(* (u32, u32)::cmp: lexicographic *)
CmpCell(a, b) == IF CmpU32(a[1], b[1]) # 0 THEN CmpU32(a[1], b[1]) ELSE CmpU32(a[2], b[2])

(* A mutant of cmp: the cell comparison is reversed like the two distance comparisons. *)
cmp_cell_reversed(self, other) ==
    IF CmpU32(other.dist, self.dist) # 0 THEN CmpU32(other.dist, self.dist)
    ELSE IF CmpU32(other.actual_dist, self.actual_dist) # 0
         THEN CmpU32(other.actual_dist, self.actual_dist)
         ELSE CmpCell(other.cell, self.cell)

(* A mutant of cmp: the distance comparisons are not reversed, so the heap is a max-heap on dist. *)
cmp_not_reversed(self, other) ==
    IF CmpU32(self.dist, other.dist) # 0 THEN CmpU32(self.dist, other.dist)
    ELSE IF CmpU32(self.actual_dist, other.actual_dist) # 0
         THEN CmpU32(self.actual_dist, other.actual_dist)
         ELSE CmpCell(self.cell, other.cell)

(* impl Ord for UnvisitedState: reversed on dist, then reversed on actual_dist, then by cell *)
cmp(self, other) ==
    IF CmpU32(other.dist, self.dist) # 0 THEN CmpU32(other.dist, self.dist)
    ELSE IF CmpU32(other.actual_dist, self.actual_dist) # 0
         THEN CmpU32(other.actual_dist, self.actual_dist)
         ELSE CmpCell(self.cell, other.cell)

(***************************************************************************)
(* BinaryHeap<UnvisitedState>: the entries in insertion order; pop removes *)
(* a greatest entry under cmp.                                             *)
(***************************************************************************)
push(heap, e) == Append(heap, e)

(* the position of the entry BinaryHeap::pop returns *)
PopIndex(heap) ==
    CHOOSE i \in 1..Len(heap) :
        /\ \A j \in 1..Len(heap) : cmp(heap[i], heap[j]) >= 0
        /\ \A j \in 1..(i - 1) : cmp(heap[j], heap[i]) < 0

RemoveAt(heap, i) == [k \in 1..(Len(heap) - 1) |-> IF k < i THEN heap[k] ELSE heap[k + 1]]

(***************************************************************************)
(* impl Grid                                                               *)
(***************************************************************************)
width(g) == Len(g.cells)

height(g) == IF Len(g.cells) = 0 THEN 0 ELSE Len(g.cells[1])

InGrid(g, cell) ==
    /\ cell[1] >= 0 /\ cell[1] < Len(g.cells)
    /\ cell[2] >= 0 /\ cell[2] < Len(g.cells[cell[1] + 1])

get_cell(g, cell) == IF InGrid(g, cell) THEN g.cells[cell[1] + 1][cell[2] + 1] ELSE None

(* A mutant of set_cell: the column and row indices are swapped. *)
set_cell_transposed(g, cell, state) ==
    IF InGrid(g, <<cell[2], cell[1]>>)
    THEN [g EXCEPT !.cells[cell[2] + 1][cell[1] + 1] = state]
    ELSE g

set_cell(g, cell, state) ==
    IF InGrid(g, cell) THEN [g EXCEPT !.cells[cell[1] + 1][cell[2] + 1] = state] ELSE g

(* a panic ends the process; the grid is left as it was at that moment *)
Panic(g, msg) == [g EXCEPT !.panicked = msg]

(* A mutant of new: the start cell is not set to Unvisited. *)
new_start_not_set(w, h, start, goal, enable_astar) ==
    LET made == [enable_astar |-> enable_astar,
                 cells |-> [x \in 1..w |-> [y \in 1..h |-> Unknown]],
                 unvisited |-> << >>,
                 start |-> start,
                 current |-> start,
                 current_dist |-> 0,
                 goal |-> goal,
                 panicked |-> "",
                 stdout |-> "",
                 calls |-> 0]
        none == [made EXCEPT !.cells = << >>]
    IN  IF ~(start[1] < w /\ start[2] < h) THEN Panic(none, "start isn't in bounds")
        ELSE IF ~(goal[1] < w /\ goal[2] < h) THEN Panic(none, "goal isn't in bounds")
        ELSE made

(* A mutant of new: the bounds are tested with <= instead of <. *)
new_inclusive_bounds(w, h, start, goal, enable_astar) ==
    LET made == [enable_astar |-> enable_astar,
                 cells |-> [x \in 1..w |-> [y \in 1..h |-> Unknown]],
                 unvisited |-> << >>,
                 start |-> start,
                 current |-> start,
                 current_dist |-> 0,
                 goal |-> goal,
                 panicked |-> "",
                 stdout |-> "",
                 calls |-> 0]
        none == [made EXCEPT !.cells = << >>]
    IN  IF ~(start[1] <= w /\ start[2] <= h) THEN Panic(none, "start isn't in bounds")
        ELSE IF ~(goal[1] <= w /\ goal[2] <= h) THEN Panic(none, "goal isn't in bounds")
        ELSE set_cell(made, made.current, Unvisited)

(* Grid::new: the two asserts, then every cell Unknown except the start cell *)
new(w, h, start, goal, enable_astar) ==
    LET made == [enable_astar |-> enable_astar,
                 cells |-> [x \in 1..w |-> [y \in 1..h |-> Unknown]],
                 unvisited |-> << >>,
                 start |-> start,
                 current |-> start,
                 current_dist |-> 0,
                 goal |-> goal,
                 panicked |-> "",
                 stdout |-> "",
                 calls |-> 0]
        none == [made EXCEPT !.cells = << >>]
    IN  IF ~(start[1] < w /\ start[2] < h) THEN Panic(none, "start isn't in bounds")
        ELSE IF ~(goal[1] < w /\ goal[2] < h) THEN Panic(none, "goal isn't in bounds")
        ELSE set_cell(made, made.current, Unvisited)

(* A mutant of RoundU32: the quotient is truncated, as without .round(). *)
RoundU32_truncated(num, den) == num \div den

(* y.round() as u32 for y = num / den with num >= 0 and den > 0: halves round away from zero *)
RoundU32(num, den) == (2 * num + den) \div (2 * den)

(* the y of column x on the line through start and end (start.0 < end.0) *)
LineY(start, end, x) ==
    LET den == end[1] - start[1]
        num == start[2] * den + (end[2] - start[2]) * (x - start[1])
    IN  RoundU32(num, den)

RECURSIVE DrawLoop(_, _, _, _)
DrawLoop(g, start, end, x) ==
    IF x >= end[1] THEN g
    ELSE DrawLoop(set_cell(g, <<x, LineY(start, end, x)>>, Obstacle), start, end, x + 1)

(* Grid::draw_obstacle: for x in start.0..end.0 *)
draw_obstacle(g, start, end) == DrawLoop(g, start, end, start[1])

(* A mutant of get_neighbors: "down" is tested against height() instead of height() - 1. *)
get_neighbors_off_by_one(g, cell) ==
    (IF cell[2] > 0 THEN << <<cell[1], cell[2] - 1>> >> ELSE << >>)
    \o (IF cell[2] < height(g) THEN << <<cell[1], cell[2] + 1>> >> ELSE << >>)
    \o (IF cell[1] > 0 THEN << <<cell[1] - 1, cell[2]>> >> ELSE << >>)
    \o (IF cell[1] < width(g) - 1 THEN << <<cell[1] + 1, cell[2]>> >> ELSE << >>)

(* Grid::get_neighbors: up, down, left, right *)
get_neighbors(g, cell) ==
    (IF cell[2] > 0 THEN << <<cell[1], cell[2] - 1>> >> ELSE << >>)
    \o (IF cell[2] < height(g) - 1 THEN << <<cell[1], cell[2] + 1>> >> ELSE << >>)
    \o (IF cell[1] > 0 THEN << <<cell[1] - 1, cell[2]>> >> ELSE << >>)
    \o (IF cell[1] < width(g) - 1 THEN << <<cell[1] + 1, cell[2]>> >> ELSE << >>)

(* (n as f64).sqrt() as u32 *)
SqrtU32(n) == CHOOSE r \in 0..n : r * r <= n /\ (r + 1) * (r + 1) > n

(* A mutant of get_dist: the estimate is measured from start instead of goal. *)
get_dist_from_start(g, cell, dist) ==
    IF g.enable_astar
    THEN LET dx == cell[1] - g.start[1]
             dy == cell[2] - g.start[2]
         IN  dist + SqrtU32(dx * dx + dy * dy)
    ELSE dist

(* Grid::get_dist *)
get_dist(g, cell, dist) ==
    IF g.enable_astar
    THEN LET dx == cell[1] - g.goal[1]
             dy == cell[2] - g.goal[2]
         IN  dist + SqrtU32(dx * dx + dy * dy)
    ELSE dist

(* A mutant of MinByKey: max_by_key, the last of the greatest elements. *)
MaxByKey(cands) ==
    CHOOSE i \in 1..Len(cands) :
        /\ \A j \in 1..Len(cands) : cands[i].dist >= cands[j].dist
        /\ \A j \in (i + 1)..Len(cands) : cands[j].dist < cands[i].dist

(* .min_by_key(|(_, dist)| *dist): the first of the least elements *)
MinByKey(cands) ==
    CHOOSE i \in 1..Len(cands) :
        /\ \A j \in 1..Len(cands) : cands[i].dist <= cands[j].dist
        /\ \A j \in 1..(i - 1) : cands[j].dist > cands[i].dist

(* the Visited neighbours of a cell with their dist, in get_neighbors order (filter_map) *)
VisitedNeighbors(g, cell) ==
    LET ns == get_neighbors(g, cell)
        keep == SelectSeq(ns, LAMBDA n : get_cell(g, n).tag = "Visited")
    IN  [i \in 1..Len(keep) |-> [cell |-> keep[i], dist |-> get_cell(g, keep[i]).dist]]

RECURSIVE PathLoop(_, _)
PathLoop(g, cursor) ==
    IF cursor = g.start THEN g
    ELSE LET g1 == set_cell(g, cursor, OnPath)
             cands == VisitedNeighbors(g1, cursor)
         IN  IF Len(cands) = 0 THEN Panic(g1, "unwrap on None")
             ELSE PathLoop(g1, cands[MinByKey(cands)].cell)

(* A mutant of color_path: the loop also colours the start cell. *)
color_path_marks_start(g) ==
    IF g.current # g.goal THEN g
    ELSE LET g1 == PathLoop(g, g.goal)
         IN  IF g1.panicked # "" THEN g1 ELSE set_cell(g1, g1.start, OnPath)

(* Grid::color_path *)
color_path(g) == IF g.current # g.goal THEN g ELSE PathLoop(g, g.goal)

(* the for loop of dijkstra_iteration over the neighbours ns[i..] of current *)
RECURSIVE NeighborLoop(_, _, _)
NeighborLoop(g, ns, i) ==
    IF i > Len(ns) THEN g
    ELSE LET n == ns[i]
             state == get_cell(g, n)
         IN  CASE state.tag = "None" -> Panic(g, "unwrap on None")
               [] state.tag = "Unknown" ->
                    LET dist == g.current_dist + 1
                        g1 == set_cell(g, n, Unvisited)
                        g2 == [g1 EXCEPT !.unvisited =
                                   push(@, UnvisitedState(get_dist(g1, n, dist), dist, n))]
                    IN  NeighborLoop(g2, ns, i + 1)
               [] state.tag = "Unvisited" -> NeighborLoop(g, ns, i + 1)
               [] state.tag = "Visited" ->
                    IF state.dist <= g.current_dist + 1
                    THEN NeighborLoop(g, ns, i + 1)
                    ELSE Panic(g, "assertion failed: dist <= self.current_dist + 1")
               [] state.tag = "Obstacle" -> NeighborLoop(g, ns, i + 1)
               [] state.tag = "OnPath" -> Panic(g, "unreachable")

(* dijkstra_iteration after its early return: relax, settle current, pop, colour *)
IterationBody(g) ==
    LET g1 == NeighborLoop(g, get_neighbors(g, g.current), 1)
        g2 == set_cell(g1, g1.current, Visited(g1.current_dist))
    IN  IF g1.panicked # "" THEN g1
        ELSE IF Len(g2.unvisited) = 0
        THEN [g2 EXCEPT !.stdout = "no possible path"]
        ELSE LET i == PopIndex(g2.unvisited)
                 cell == g2.unvisited[i]
                 g3 == [g2 EXCEPT !.unvisited = RemoveAt(@, i),
                                  !.current = cell.cell,
                                  !.current_dist = cell.actual_dist]
             IN  IF g3.current = g3.goal
                 THEN color_path([g3 EXCEPT !.stdout = "we are done"])
                 ELSE g3

(* A mutant of dijkstra_iteration: the early return on current == goal is missing. *)
dijkstra_iteration_no_return(g) == IterationBody(g)

(* Grid::dijkstra_iteration *)
dijkstra_iteration(g) == IF g.current = g.goal THEN g ELSE IterationBody(g)

(***************************************************************************)
(* The driver, main(): construct, paint obstacles, then call               *)
(* dijkstra_iteration again and again.                                     *)
(***************************************************************************)
Completed(g) == g.panicked = "" /\ g.current = g.goal
Exhausted(g) == g.panicked = "" /\ g.current # g.goal /\ g.stdout = "no possible path"
Terminal(g) == Completed(g) \/ Exhausted(g)

(* one call from the main loop, counted in calls while the search has not terminated *)
Call(g) == [dijkstra_iteration(g) EXCEPT !.calls = IF Terminal(g) THEN @ ELSE @ + 1]

AllCells(g) == {<<x, y>> : x \in 0..(width(g) - 1), y \in 0..(height(g) - 1)}
CellsWith(g, tag) == {c \in AllCells(g) : get_cell(g, c).tag = tag}

(* the end points offered to draw_obstacle: the grid's points and one beyond each edge *)
Points(g) == (0..width(g)) \X (0..height(g))

(* obstacles are painted on grids whose sides are at most PaintSide and that have at most
   PaintCells cells, at most MaxObstacles of them at a time *)
Paintable(g) ==
    /\ g.panicked = ""
    /\ width(g) <= PaintSide
    /\ height(g) <= PaintSide
    /\ width(g) * height(g) <= PaintCells

WithinObstacles(g) == Cardinality(CellsWith(g, "Obstacle")) <= MaxObstacles

(* the loop goes on calling while the process is alive *)
MayCall(g) == g.panicked = ""

(* main's position after a call on g *)
AfterCall(g) == IF Terminal(g) THEN "idle" ELSE "loop"

(* the arguments offered to Grid::new: sizes up to MaxW x MaxH, start and goal up to
   one beyond each edge *)
NewArgs ==
    {<<w, h, s, gl>> \in (0..MaxW) \X (0..MaxH) \X ((0..MaxW) \X (0..MaxH)) \X ((0..MaxW) \X (0..MaxH)) :
        /\ s[1] <= w /\ s[2] <= h
        /\ gl[1] <= w /\ gl[2] <= h}

NoTwin == "none"

Init ==
    /\ \E a \in NewArgs, m \in BOOLEAN : grid = new(a[1], a[2], a[3], a[4], m)
    /\ twin = NoTwin
    /\ pc = "draw"

(* main, lines 65-69: a draw_obstacle call before the first iteration; the calls that
   leave the same grid are one transition *)
Draw ==
    /\ pc = "draw"
    /\ Paintable(grid)
    /\ \E g1 \in {draw_obstacle(grid, from, to) : from \in Points(grid), to \in Points(grid)} :
         /\ WithinObstacles(g1)
         /\ grid' = g1
    /\ UNCHANGED <<twin, pc>>

(* main, line 85: a dijkstra_iteration call from the loop *)
Step ==
    /\ MayCall(grid)
    /\ grid' = Call(grid)
    /\ pc' = AfterCall(grid)
    /\ UNCHANGED twin

Next == Draw \/ Step

Spec == Init /\ [][Next]_vars

(***************************************************************************)
(* The same start, goal and obstacles run in A* mode (grid) and in         *)
(* Dijkstra mode (twin), call by call.                                     *)
(***************************************************************************)
InitPair ==
    /\ \E a \in NewArgs :
         /\ grid = new(a[1], a[2], a[3], a[4], TRUE)
         /\ twin = new(a[1], a[2], a[3], a[4], FALSE)
    /\ pc = "draw"

DrawPair ==
    /\ pc = "draw"
    /\ Paintable(grid)
    /\ \E p \in {<<draw_obstacle(grid, from, to), draw_obstacle(twin, from, to)>> :
                    from \in Points(grid), to \in Points(grid)} :
         /\ WithinObstacles(p[1])
         /\ grid' = p[1]
         /\ twin' = p[2]
    /\ UNCHANGED pc

StepPair ==
    /\ MayCall(grid)
    /\ MayCall(twin)
    /\ grid' = Call(grid)
    /\ twin' = Call(twin)
    /\ pc' = AfterCall(twin)

NextPair == DrawPair \/ StepPair

SpecPair == InitPair /\ [][NextPair]_vars

(***************************************************************************)
(* Grid::new and draw_obstacle applied once each to recorded arguments:    *)
(* twin holds the arguments of the call that is made next or was made      *)
(* last, grid its result; pc is "new" before the construction, "made"      *)
(* after it and "drawn" after the draw_obstacle call.                       *)
(***************************************************************************)
NoGrid == "unmade"

InitOps ==
    /\ \E a \in NewArgs, m \in BOOLEAN :
         twin = [w |-> a[1], h |-> a[2], start |-> a[3], goal |-> a[4], enable_astar |-> m]
    /\ grid = NoGrid
    /\ pc = "new"

(* main, line 63: the Grid::new call *)
NewOp ==
    /\ pc = "new"
    /\ grid' = new(twin.w, twin.h, twin.start, twin.goal, twin.enable_astar)
    /\ pc' = "made"
    /\ UNCHANGED twin

(* main, lines 65-69: one draw_obstacle call on the grid just made *)
DrawOp ==
    /\ pc = "made"
    /\ Paintable(grid)
    /\ \E from \in Points(grid), to \in Points(grid) :
         /\ grid' = draw_obstacle(grid, from, to)
         /\ twin' = [before |-> grid, from |-> from, to |-> to]
    /\ pc' = "drawn"

NextOps == NewOp \/ DrawOp

SpecOps == InitOps /\ [][NextOps]_vars

(***************************************************************************)
(* Reference notions the properties are stated with.                       *)
(***************************************************************************)
Abs(n) == IF n < 0 THEN -n ELSE n
Manhattan(a, b) == Abs(a[1] - b[1]) + Abs(a[2] - b[2])
Adjacent(a, b) == Manhattan(a, b) = 1

Alive(g) == g.panicked = ""

(* a cell a path may use: any cell that is not an obstacle; the start cell counts, since
   the search sets out from it whatever was painted on it *)
Passable(g, c) == c = g.start \/ get_cell(g, c).tag # "Obstacle"

(* the cells of the grid next to c *)
Around(g, c) ==
    {n \in {<<c[1], c[2] - 1>>, <<c[1], c[2] + 1>>, <<c[1] - 1, c[2]>>, <<c[1] + 1, c[2]>>} :
        InGrid(g, n)}

(* breadth-first layers from the start cell over passable cells *)
RECURSIVE Layers(_, _, _)
Layers(g, seen, acc) ==
    LET last == acc[Len(acc)]
        next == {c \in UNION {Around(g, p) : p \in last} : c \notin seen /\ Passable(g, c)}
    IN  IF next = {} THEN acc ELSE Layers(g, seen \cup next, Append(acc, next))

(* the length of a shortest 4-neighbour obstacle-avoiding path from start to c, -1 if none *)
ShortestDist(g, c) ==
    LET ls == Layers(g, {g.start}, << {g.start} >>)
    IN  IF \E k \in 1..Len(ls) : c \in ls[k]
        THEN (CHOOSE k \in 1..Len(ls) : c \in ls[k]) - 1
        ELSE -1

(* the search was run and reached the goal *)
Found(g) == Completed(g) /\ g.calls > 0

(* a transition made by a dijkstra_iteration call from the main loop *)
IsCall == pc' # "draw" /\ (grid' # grid \/ pc' # pc)

(***************************************************************************)
(* Properties                                                              *)
(***************************************************************************)

(* C1: in both modes and for every painted obstacle layout, when the calls have made
   current equal goal, current_dist is the length of a shortest 4-neighbour
   obstacle-avoiding path from start to goal, which is the Manhattan distance when no
   cell is an obstacle. *)
C1_ShortestDistanceAtGoal ==
    [](Completed(grid) =>
        /\ grid.current_dist = ShortestDist(grid, grid.goal)
        /\ (CellsWith(grid, "Obstacle") = {} =>
                grid.current_dist = Manhattan(grid.start, grid.goal)))

(* C1 witness: an A* run has reached a goal that obstacles put further away than the
   Manhattan distance. *)
C1_Witness ==
    /\ Found(grid)
    /\ grid.enable_astar
    /\ grid.current_dist > Manhattan(grid.start, grid.goal)

(* the OnPath cells at distance k from start, given the breadth-first layers ls *)
OnPathAt(g, ls, k) == IF k + 1 <= Len(ls) THEN CellsWith(g, "OnPath") \cap ls[k + 1] ELSE {}

(* C2: after completion the OnPath cells, ordered from goal towards start, are a connected
   4-neighbour chain: there is exactly one at each distance 1..current_dist from start,
   the goal is the one at distance current_dist, each is adjacent to the next one (the
   one a unit closer to start) and the last is adjacent to start; so the chain has as
   many cells as the goal's distance. Both modes, every obstacle layout. *)
C2_PathIsChain ==
    [](Found(grid) =>
        LET ls == Layers(grid, {grid.start}, << {grid.start} >>)
        IN  /\ Cardinality(CellsWith(grid, "OnPath")) = grid.current_dist
            /\ \A k \in 1..grid.current_dist : Cardinality(OnPathAt(grid, ls, k)) = 1
            /\ OnPathAt(grid, ls, grid.current_dist) = {grid.goal}
            /\ \A k \in 2..grid.current_dist :
                  \A c \in OnPathAt(grid, ls, k) :
                      \E p \in OnPathAt(grid, ls, k - 1) : Adjacent(c, p)
            /\ \A c \in OnPathAt(grid, ls, 1) : Adjacent(c, grid.start))

(* C2 witness: a completed run whose path had to bend around obstacles. *)
C2_Witness ==
    /\ Found(grid)
    /\ CellsWith(grid, "Obstacle") # {}
    /\ grid.current_dist > Manhattan(grid.start, grid.goal)
    /\ Cardinality(CellsWith(grid, "OnPath")) >= 4

(* the 5x5 scenario: no obstacles, start (0,0), goal (4,4) *)
Scenario5x5(g) ==
    /\ width(g) = 5 /\ height(g) = 5
    /\ g.start = <<0, 0>> /\ g.goal = <<4, 4>>
    /\ CellsWith(g, "Obstacle") = {}

(* C3 as stated: after completion the OnPath cells include start and goal and number
   goal distance + 1 (9 in the 5x5 scenario, at distance 8). *)
C3_Original ==
    Found(grid) =>
        /\ get_cell(grid, grid.start).tag = "OnPath"
        /\ get_cell(grid, grid.goal).tag = "OnPath"
        /\ Cardinality(CellsWith(grid, "OnPath")) = grid.current_dist + 1
        /\ (Scenario5x5(grid) =>
                grid.current_dist = 8 /\ Cardinality(CellsWith(grid, "OnPath")) = 9)

(* C3 amended: after completion the OnPath cells include the goal but not the start (which
   stays Visited) and number exactly the goal distance; in the 5x5 scenario the goal
   distance is 8 and there are 8 OnPath cells. *)
C3_PathCellCount ==
    Found(grid) =>
        /\ get_cell(grid, grid.start) = Visited(0)
        /\ get_cell(grid, grid.goal).tag = "OnPath"
        /\ Cardinality(CellsWith(grid, "OnPath")) = grid.current_dist
        /\ (Scenario5x5(grid) =>
                grid.current_dist = 8 /\ Cardinality(CellsWith(grid, "OnPath")) = 8)

(* C3 witness: the 5x5 scenario has completed. *)
C3_Witness == Found(grid) /\ Scenario5x5(grid)

(* the program fields of a grid: what a call can change *)
Fields(g) == <<g.enable_astar, g.cells, g.unvisited, g.start, g.current, g.current_dist, g.goal>>

(* C4: once the search has terminated (Completed, or Exhausted), a further
   dijkstra_iteration call does not panic and leaves cells, heap, current and
   current_dist (every field of the grid) as they were. *)
C4_TerminalCallsChangeNothing ==
    [][(Terminal(grid) /\ IsCall) => (Alive(grid') /\ Fields(grid') = Fields(grid))]_vars

(* C4 witness: a call was made on an Exhausted search, in which cells had been settled. *)
C4_Witness ==
    /\ Exhausted(grid)
    /\ pc = "idle"
    /\ Cardinality(CellsWith(grid, "Visited")) >= 3

(* the settled cells: Visited, or OnPath laid over a Visited cell (every OnPath cell but
   the goal, which is popped and coloured without being set Visited) *)
Settled(g) == CellsWith(g, "Visited") \cup (CellsWith(g, "OnPath") \ {g.goal})

(* C5: from every non-terminal state one dijkstra_iteration call adds exactly one cell,
   the cell that was current, to the settled set and removes none; also on the call that
   pops the goal and colours the path. *)
C5_OneCellSettledPerCall ==
    [][(~Terminal(grid) /\ IsCall) =>
          /\ grid.current \notin Settled(grid)
          /\ Settled(grid') = Settled(grid) \cup {grid.current}]_vars

(* C5 witness: the call that popped the goal and coloured a path of at least three cells
   has been made. *)
C5_Witness ==
    /\ Found(grid)
    /\ Cardinality(CellsWith(grid, "OnPath")) >= 3
    /\ Cardinality(CellsWith(grid, "Visited")) >= 3

(* the priority key under which the cell current was pushed *)
KeyOfCurrent(g) == get_dist(g, g.current, g.current_dist)

(* C6 as stated: in A* mode a call never makes current a cell whose actual distance is
   smaller than that of a cell settled earlier. *)
C6_Original ==
    [][(grid.enable_astar /\ ~Terminal(grid) /\ IsCall /\ Alive(grid') /\ ~Terminal(grid')) =>
          \A c \in CellsWith(grid', "Visited") :
              get_cell(grid', c).dist <= grid'.current_dist]_vars

(* C6 amended: in A* mode it is the priority key, actual distance plus the floored
   Euclidean distance to the goal, that never decreases from one cell taken as current to
   the next, for every obstacle layout; the actual distances alone are not monotone. *)
C6_AstarKeysMonotone ==
    [][(grid.enable_astar /\ ~Terminal(grid) /\ IsCall /\ Alive(grid') /\ ~Exhausted(grid')) =>
          KeyOfCurrent(grid') >= KeyOfCurrent(grid)]_vars

(* C6 witness: an A* run has taken as current a cell nearer to start than a cell it
   settled before. *)
C6_Witness ==
    /\ grid.enable_astar
    /\ Alive(grid)
    /\ ~Terminal(grid)
    /\ \E c \in CellsWith(grid, "Visited") : get_cell(grid, c).dist > grid.current_dist

(* C7: in Dijkstra mode the key (the actual distance) of the entry popped and taken as
   current never decreases from one call to the next, starting from the start cell's 0. *)
C7_DijkstraKeysMonotone ==
    [][(~grid.enable_astar /\ IsCall /\ Alive(grid')) =>
          /\ KeyOfCurrent(grid') = grid'.current_dist
          /\ grid'.current_dist >= grid.current_dist
          /\ (grid.calls = 0 => grid.current_dist = 0)]_vars

(* C7 witness: a Dijkstra run has popped an entry at distance 3 or more around obstacles. *)
C7_Witness ==
    /\ ~grid.enable_astar
    /\ Alive(grid)
    /\ grid.current_dist >= 3
    /\ CellsWith(grid, "Obstacle") # {}

(* C8: with the same size, start, goal and obstacles, once the Dijkstra run has reached
   the goal the A* run has reached it too, with the same current_dist and after no more
   dijkstra_iteration calls than the Dijkstra run. *)
C8_AstarNoSlowerSameDistance ==
    Found(twin) =>
        /\ Found(grid)
        /\ grid.current_dist = twin.current_dist
        /\ grid.calls <= twin.calls

(* C8 witness: both runs have reached a goal behind obstacles and A* needed fewer calls. *)
C8_Witness ==
    /\ Found(twin)
    /\ Found(grid)
    /\ CellsWith(grid, "Obstacle") # {}
    /\ grid.calls < twin.calls

(* the cells that an obstacle-avoiding 4-neighbour path from start reaches *)
Reachable(g) ==
    LET ls == Layers(g, {g.start}, << {g.start} >>)
    IN  UNION {ls[k] : k \in 1..Len(ls)}

(* obstacles cut the goal off from start, given the set r of reachable cells *)
Separated(g, r) == CellsWith(g, "Obstacle") # {} /\ g.goal \notin r

(* C9: when obstacles separate start from goal, the calls reach the Exhausted state
   without a panic: the process is alive, the search never completes, one call is made
   per cell an obstacle-avoiding path from start reaches (so at most width*height), and
   the search is Exhausted exactly when they have all been made; and every cell that no
   such path reaches, the goal among them, stays what it was when painted (Unknown, or
   Obstacle): never Unvisited, Visited or OnPath. *)
C9_SeparatedGoalExhausts ==
    [](LET r == Reachable(grid)
       IN  Separated(grid, r) =>
               /\ Alive(grid)
               /\ \A c \in AllCells(grid) \ r : get_cell(grid, c).tag \in {"Unknown", "Obstacle"}
               /\ get_cell(grid, grid.goal).tag \notin {"Unvisited", "Visited", "OnPath"}
               /\ ~Completed(grid)
               /\ grid.calls <= Cardinality(r)
               /\ Cardinality(r) <= width(grid) * height(grid)
               /\ (Exhausted(grid) <=> grid.calls = Cardinality(r)))

(* C9 witness: the 3x3 grid with start (0,0), goal (2,2) and a wall between them is
   Exhausted, the goal still Unknown. *)
C9_Witness ==
    /\ width(grid) = 3 /\ height(grid) = 3
    /\ grid.start = <<0, 0>> /\ grid.goal = <<2, 2>>
    /\ Cardinality(CellsWith(grid, "Obstacle")) = 3
    /\ Exhausted(grid)
    /\ get_cell(grid, grid.goal) = Unknown

(* C10 as stated: a dijkstra_iteration call made with current != goal while the cell at
   current is not Unvisited fails; it never goes on to relax neighbours and settle
   current. *)
C10_NonFrontierCurrentIsFatal ==
    [][(IsCall /\ grid.current # grid.goal /\ get_cell(grid, grid.current).tag # "Unvisited") =>
          ~Alive(grid')]_vars

(* the arguments are in bounds: 0 <= x < w and 0 <= y < h for start and for goal *)
ArgsInBounds(a) ==
    /\ a.start[1] < a.w /\ a.start[2] < a.h
    /\ a.goal[1] < a.w /\ a.goal[2] < a.h

(* C11: Grid::new panics and leaves no grid whenever start or goal is out of bounds
   (also when w or h is 0); whenever both are in bounds it succeeds with a w x h grid in
   which every cell is Unknown except the start cell, with current = start and
   current_dist = 0, and with the start, goal and mode it was given. *)
C11_NewChecksBounds ==
    pc = "made" =>
        /\ (~ArgsInBounds(twin) => (~Alive(grid) /\ grid.cells = << >>))
        /\ (ArgsInBounds(twin) =>
                /\ Alive(grid)
                /\ width(grid) = twin.w /\ height(grid) = twin.h
                /\ \A c \in AllCells(grid) \ {twin.start} : get_cell(grid, c) = Unknown
                /\ get_cell(grid, twin.start) = Unvisited
                /\ grid.current = twin.start /\ grid.current_dist = 0
                /\ grid.start = twin.start /\ grid.goal = twin.goal
                /\ grid.enable_astar = twin.enable_astar)

(* C11 witness: a construction with start inside and goal just beyond the right edge of a
   grid of several cells has panicked. *)
C11_Witness ==
    /\ pc = "made"
    /\ twin.w >= 2 /\ twin.h >= 2
    /\ twin.start[1] < twin.w /\ twin.start[2] < twin.h
    /\ twin.goal[1] = twin.w /\ twin.goal[2] < twin.h
    /\ grid.panicked = "goal isn't in bounds"

(* C12 as stated: a cell that is Obstacle when a dijkstra_iteration call is made is
   Obstacle after it, wherever the obstacles were painted, the start cell and the goal
   cell included. *)
C12_ObstaclesStay ==
    [][IsCall =>
          \A c \in CellsWith(grid, "Obstacle") : get_cell(grid', c).tag = "Obstacle"]_vars

(* C13 as stated: after completion neither the start cell nor the goal cell is OnPath. *)
C13_Original ==
    Completed(grid) =>
        /\ get_cell(grid, grid.start).tag # "OnPath"
        /\ get_cell(grid, grid.goal).tag # "OnPath"

(* C13 amended: path colouring never overwrites the start cell, but it does overwrite
   the goal cell whenever the goal is not the start: after completion the start cell is
   not OnPath, and the goal cell is OnPath exactly when goal differs from start. *)
C13_StartKeptGoalColoured ==
    Completed(grid) =>
        /\ get_cell(grid, grid.start).tag # "OnPath"
        /\ (get_cell(grid, grid.goal).tag = "OnPath" <=> grid.goal # grid.start)

(* C13 witness: a search has completed at a goal two or more cells from start, and the
   cell next to start on the path is coloured. *)
C13_Witness ==
    /\ Found(grid)
    /\ grid.current_dist >= 2
    /\ \E c \in CellsWith(grid, "OnPath") : Adjacent(c, grid.start)

(* C14: the sanity assertion never fails and the unreachable arm is never taken: no call
   ends in a panic of either, and whenever a call inspects the neighbours of current
   (current not the goal; calls repeated after exhaustion included) every Visited
   neighbour of current has dist <= current_dist + 1 and no neighbour of current is
   OnPath. Both modes, every painted obstacle layout. *)
C14_AssertionsNeverFail ==
    [][IsCall =>
          /\ grid'.panicked \notin
                {"assertion failed: dist <= self.current_dist + 1", "unreachable"}
          /\ grid.current # grid.goal =>
                \A n \in Around(grid, grid.current) :
                    /\ get_cell(grid, n).tag # "OnPath"
                    /\ get_cell(grid, n).tag = "Visited" =>
                           get_cell(grid, n).dist <= grid.current_dist + 1]_vars

(* C14 witness: the inspection has been repeated after exhaustion in an A* search, on a
   current cell with two or more Visited neighbours. *)
C14_Witness ==
    /\ grid.enable_astar
    /\ Exhausted(grid)
    /\ pc = "idle"
    /\ Cardinality({n \in Around(grid, grid.current) : get_cell(grid, n).tag = "Visited"}) >= 2

(* C15: the calls reach a terminal state after at most width*height of them: calls, the
   number of calls made before the search was Completed or Exhausted, never exceeds
   width*height; and the colouring loop run on completion ends by reaching start: it
   never panics on a cursor without a Visited neighbour, and a cell next to start is
   coloured. Both modes, every painted obstacle layout. *)
C15_TerminatesWithinCells ==
    /\ grid.panicked # "unwrap on None"
    /\ Alive(grid) => grid.calls <= width(grid) * height(grid)
    /\ Found(grid) => \E c \in CellsWith(grid, "OnPath") : Adjacent(c, grid.start)

(* C15 witness: a search on a grid of 9 or more cells completed only with its last
   possible call, every other cell settled, and coloured a path of 4 or more cells. *)
C15_Witness ==
    /\ Found(grid)
    /\ width(grid) * height(grid) >= 9
    /\ grid.calls = width(grid) * height(grid) - 1
    /\ Cardinality(CellsWith(grid, "OnPath")) >= 4

(* the cells that have an entry in the heap *)
HeapCells(g) == {g.unvisited[i].cell : i \in 1..Len(g.unvisited)}

(* C16: in every reachable state no coordinate occurs twice in the heap and every heap
   entry's cell is Unvisited (so no entry is ever stale and a pop has nothing to
   discard), each entry carrying the key get_dist gives it and, until the path is
   coloured, as actual_dist one more than the dist of a settled cell next to it or than
   current_dist; and a cell popped and adopted as current is Unvisited and no longer in
   the heap until it is settled or coloured. *)
C16_HeapEntriesAreFrontier ==
    [](Alive(grid) =>
        /\ \A i \in 1..Len(grid.unvisited) :
              LET e == grid.unvisited[i]
              IN  /\ get_cell(grid, e.cell) = Unvisited
                  /\ \A j \in 1..Len(grid.unvisited) : grid.unvisited[j].cell = e.cell => j = i
                  /\ e.dist = get_dist(grid, e.cell, e.actual_dist)
                  /\ ~Completed(grid) =>
                        \E n \in Around(grid, e.cell) :
                            \/ get_cell(grid, n) = Visited(e.actual_dist - 1)
                            \/ n = grid.current /\ e.actual_dist = grid.current_dist + 1
        /\ (grid.calls > 0 /\ ~Terminal(grid)) =>
              /\ get_cell(grid, grid.current) = Unvisited
              /\ grid.current \notin HeapCells(grid))

(* C16 witness: a search has adopted a popped cell as current while three or more
   entries wait in the heap. *)
C16_Witness ==
    /\ Alive(grid)
    /\ grid.calls >= 2
    /\ ~Terminal(grid)
    /\ Len(grid.unvisited) >= 3

(* C17 as stated: immediately after construction the start cell is Unvisited with
   distance 0 and the heap contains an entry for the start coordinate. *)
C17_Original ==
    (pc = "made" /\ Alive(grid)) =>
        /\ get_cell(grid, grid.start) = Unvisited
        /\ grid.current_dist = 0
        /\ grid.start \in HeapCells(grid)

(* C17 amended: immediately after construction the start cell is Unvisited and is held
   as current with current_dist 0; the heap is empty, with no entry for the start
   coordinate. *)
C17_StartIsCurrentHeapEmpty ==
    (pc = "made" /\ Alive(grid)) =>
        /\ get_cell(grid, grid.start) = Unvisited
        /\ grid.current = grid.start
        /\ grid.current_dist = 0
        /\ grid.unvisited = << >>

(* C17 witness: a grid of several cells has been constructed with start away from the
   origin. *)
C17_Witness ==
    /\ pc = "made"
    /\ Alive(grid)
    /\ width(grid) >= 2 /\ height(grid) >= 2
    /\ grid.start # <<0, 0>>
    /\ grid.goal # grid.start

(* the entry the last call popped and adopted as current *)
Popped(g) == UnvisitedState(KeyOfCurrent(g), g.current_dist, g.current)

(* a call from the main loop popped an entry *)
IsPop == IsCall /\ ~Terminal(grid) /\ Alive(grid') /\ ~Exhausted(grid')

(* C18 as stated: the popped entry is the smallest of the heap under the lexicographic
   order on (dist, actual_dist, cell): no entry left in the heap has a smaller dist, or
   the same dist and a smaller actual_dist, or the same of both and a smaller cell. *)
C18_Original ==
    [][IsPop =>
          \A i \in 1..Len(grid'.unvisited) :
              LET e == grid'.unvisited[i]
                  p == Popped(grid')
              IN  \/ p.dist < e.dist
                  \/ p.dist = e.dist /\ p.actual_dist < e.actual_dist
                  \/ p.dist = e.dist /\ p.actual_dist = e.actual_dist
                        /\ CmpCell(p.cell, e.cell) < 0]_vars

(* C18 amended: the popped entry has the smallest dist, among the entries of that dist
   the smallest actual_dist, and among the entries equal in both the lexicographically
   largest cell (x, y). *)
C18_PopSmallestKeyLargestCell ==
    [][IsPop =>
          \A i \in 1..Len(grid'.unvisited) :
              LET e == grid'.unvisited[i]
                  p == Popped(grid')
              IN  \/ p.dist < e.dist
                  \/ p.dist = e.dist /\ p.actual_dist < e.actual_dist
                  \/ p.dist = e.dist /\ p.actual_dist = e.actual_dist
                        /\ CmpCell(p.cell, e.cell) > 0]_vars

(* C18 witness: a pop has left in the heap an entry that ties with the popped one on dist
   and on actual_dist. *)
C18_Witness ==
    /\ Alive(grid)
    /\ grid.calls > 0
    /\ ~Terminal(grid)
    /\ \E i \in 1..Len(grid.unvisited) :
          /\ grid.unvisited[i].dist = KeyOfCurrent(grid)
          /\ grid.unvisited[i].actual_dist = grid.current_dist

(* (x, y) is the grid point of column x nearest to the line through from and to
   (from.x < to.x), the upper one when two are equally near *)
OnLine(from, to, x, y) ==
    LET dx == to[1] - from[1]
        off == 2 * (y * dx - (from[2] * dx + (to[2] - from[2]) * (x - from[1])))
    IN  -dx < off /\ off <= dx

(* the points draw_obstacle(from, to) is to mark: none when from.x >= to.x *)
Raster(from, to) ==
    {p \in (from[1]..(to[1] - 1)) \X (0..(from[2] + to[2])) : OnLine(from, to, p[1], p[2])}

(* C19: draw_obstacle(from, to) does not fail; it marks exactly one point in each column
   x with from.x <= x < to.x, the rounded point of the line through from and to: the
   cell there becomes Obstacle if the point is in the grid and nothing happens if it is
   not; every other cell, the size of the grid, the heap, current, current_dist, start,
   goal and the mode are as before; with from.x >= to.x (a vertical segment included)
   the grid is unchanged. *)
C19_DrawMarksOnePerColumn ==
    pc = "drawn" =>
        LET before == twin.before
            r == Raster(twin.from, twin.to)
        IN  /\ Alive(grid)
            /\ [grid EXCEPT !.cells = before.cells] = before
            /\ width(grid) = width(before) /\ height(grid) = height(before)
            /\ \A x \in twin.from[1]..(twin.to[1] - 1) :
                  Cardinality({p \in r : p[1] = x}) = 1
            /\ \A c \in AllCells(grid) :
                  get_cell(grid, c) = IF c \in r THEN Obstacle ELSE get_cell(before, c)
            /\ (twin.from[1] >= twin.to[1] => grid = before)

(* C19 witness: a slanted segment over three columns has been drawn that starts below
   the grid and rises into it, so that one of its points was skipped and two cells were
   set. *)
C19_Witness ==
    /\ pc = "drawn"
    /\ twin.to[1] - twin.from[1] = 3
    /\ twin.from[2] = height(grid)
    /\ twin.to[2] < twin.from[2]
    /\ Cardinality(CellsWith(grid, "Obstacle")) = 2
    /\ get_cell(grid, grid.start) = Obstacle

(* C20: in A* mode, for every obstacle layout, the popped entries come in non-decreasing
   order of (dist, actual_dist): the key of the entry adopted as current is no smaller
   than the key of the cell just expanded, and with an equal key its actual_dist is no
   smaller; and every entry in the heap after the call, the ones pushed during it
   included, has a key no smaller than the key of the cell just expanded. *)
C20_AstarPopsInKeyThenDistanceOrder ==
    [][(grid.enable_astar /\ IsPop) =>
          /\ KeyOfCurrent(grid') >= KeyOfCurrent(grid)
          /\ (KeyOfCurrent(grid') = KeyOfCurrent(grid) =>
                 grid'.current_dist >= grid.current_dist)
          /\ \A i \in 1..Len(grid'.unvisited) :
                 grid'.unvisited[i].dist >= KeyOfCurrent(grid)]_vars

(* C20 witness: an A* search among obstacles has adopted as current an entry with the
   same key as a cell settled before it and a greater actual distance, with entries
   still in the heap. *)
C20_Witness ==
    /\ grid.enable_astar
    /\ Alive(grid)
    /\ ~Terminal(grid)
    /\ CellsWith(grid, "Obstacle") # {}
    /\ grid.unvisited # << >>
    /\ \E c \in CellsWith(grid, "Visited") :
          /\ get_dist(grid, c, get_cell(grid, c).dist) = KeyOfCurrent(grid)
          /\ get_cell(grid, c).dist < grid.current_dist

====
